---- MODULE Spec2Model ----
(***************************************************************************)
(* session-tracker.py: the SessionStart hook that names a session.         *)
(* One run of the script is one process: it reads one JSON object from     *)
(* standard input, asks the Modlr HTTP API for the session (GET), creates  *)
(* it when it was not found (POST), appends a record to sessions.jsonl,    *)
(* overwrites current-session.json and prints the hook output.             *)
(* The processes of several runs share the API's store and the files.      *)
(***************************************************************************)
EXTENDS Naturals, Sequences, FiniteSets, TLC

\* ---------------------------------------------------------------- bounds
\* Processes (runs of the script) in the sequential and concurrent specifications.
MaxProcs == 2
\* How many entries of FIRST_NAMES, and of each group of SECOND_PARTS, the
\* random source draws from where the whole lists are not needed.
MaxFirst == 2
MaxSecond == 1

\* ------------------------------------------------------- Python's values
None == "<None>"
\* A key that a JSON object does not hold, an environment variable not set.
Absent == "<absent>"

\* A Python truth test of a str-or-None value (if not session_id, if nickname).
Truthy(v) == v # None /\ v # ""

\* dict.get(key, default)
Get(d, key, default) == IF key \in DOMAIN d THEN d[key] ELSE default

Min(a, b) == IF a <= b THEN a ELSE b

\* ------------------------------------------------------------ word lists
FIRST_NAMES ==
    <<
        "Gandalf",
        "Merlin",
        "Scott",
        "Trevor",
        "Kevin",
        "Barry",
        "Nigel",
        "Reginald",
        "Bartholomew",
        "Cornelius",
        "Thaddeus",
        "Mortimer",
        "Mrs. Willoughby",
        "Father Paul Devonly",
        "Dr. Spaceman",
        "Sergeant Pickles",
        "Professor Snugglebottom",
        "Captain Whiskers",
        "Dame Judith",
        "Sir Reginald",
        "Bishop Flanagan",
        "Reverend Chaos",
        "Admiral Biscuits",
        "Colonel Mustard",
        "Snookums",
        "Pudding",
        "Muffin",
        "Waffles",
        "Sprocket",
        "Gizmo",
        "Pebbles",
        "Mr. Fluffington",
        "Princess Thunderpaws",
        "Lord Wigglebottom",
        "Tiny Steve",
        "The Dread Lord Abaddon",
        "Xarthok the Defiler",
        "The Unnamed One",
        "Entropy Prime",
        "The Void Walker",
        "Chaos Incarnate",
        "The Final Arbiter",
        "Chad from Marketing",
        "Brenda in HR",
        "The Scrum Master",
        "That Guy from IT",
        "Regional Manager Dwight",
        "Senior Vice President Jenkins",
        "Intern #47",
        "A Swarm of Bees",
        "Three Raccoons in a Trenchcoat",
        "The Concept of Thursday",
        "The Stepmother You Never Wanted",
        "An Increasingly Nervous Flamingo",
        "Greg" >>

SpaceParts ==
    <<
        "the Magnificent",
        "the Terrible",
        "the Unready",
        "the Adequate",
        "the All-Knowing",
        "the Mostly-Knowing",
        "the Occasionally Correct",
        "the Destroyer of Worlds",
        "the Filer of Taxes",
        "the Sender of Emails",
        "the Inevitable",
        "the Procrastinator",
        "the Early-to-Bed",
        "the Devourer",
        "the Snack-Sized",
        "the Family-Sized",
        "the Recursive",
        "the Deprecated",
        "the Legacy Code" >>

CommaParts ==
    <<
        "Attorney at Law",
        "CPA",
        "PhD",
        "Esq.",
        "MD",
        "Earl of Croix",
        "Duke of URL",
        "Baron of the Spreadsheet",
        "Viscount of the Third Floor",
        "Lord of the Ping",
        "Count of Monte Crisco",
        "Regional Manager",
        "Associate Vice President",
        "Junior Senior Developer",
        "Defender of the Realm",
        "Keeper of the Sacred Changelog",
        "who is running late",
        "who forgot to mute",
        "who meant to reply-all",
        "who's not angry, just disappointed" >>

DashParts ==
    <<
        "Sexiest Person, 1998-99 (Elevator World Magazine)",
        "Winner, Most Consistent (Participation Magazine)",
        "As Seen on TV's Matlock",
        "Now With 20% More Existential Dread!",
        "Terms and Conditions Apply",
        "Voted 'Most Likely to Defecate Standing'",
        "Certified Pre-Owned",
        "Some Assembly Required",
        "Batteries Not Included",
        "Your Mileage May Vary",
        "Not Valid in Quebec",
        "Please Consult Your Doctor",
        "Your Childhood Imaginary Friend",
        "Who's not my real mum" >>

OfTheParts ==
    <<
        "Flesh Cathedral",
        "Screaming Void",
        "Infinite Spreadsheet",
        "Forbidden Repository",
        "Haunted Codebase",
        "Eternal Standup",
        "Third-Floor Breakroom",
        "Unclosed Parenthesis",
        "Merge Conflict",
        "Sacred Timeline",
        "Forbidden Snack Drawer",
        "Lost Documentation",
        "Thousand Jira Tickets",
        "Unanswered Slack Messages",
        "Pending PRs" >>

\* list(SECOND_PARTS.keys()); the third key, the dash of line 139, is written in ASCII.
SEPARATORS == << " ", ", ", "--", " of the " >>

SECOND_PARTS ==
    (" " :> SpaceParts) @@ (", " :> CommaParts) @@ ("--" :> DashParts)
        @@ (" of the " :> OfTheParts)

\* The three random.choice draws of one call, as indices <<i, k, j>>: those
\* within the first nf names and the first ns entries of each group.
DrawsWithin(nf, ns) ==
    UNION { { << i, k, j >> : i \in 1..Min(nf, Len(FIRST_NAMES)),
                              j \in 1..Min(ns, Len(SECOND_PARTS[SEPARATORS[k]])) } :
            k \in 1..Len(SEPARATORS) }

\* Every draw the lists allow.
AllDraws ==
    UNION { { << i, k, j >> : i \in 1..Len(FIRST_NAMES),
                              j \in 1..Len(SECOND_PARTS[SEPARATORS[k]]) } :
            k \in 1..Len(SEPARATORS) }

BoundedDraws == DrawsWithin(MaxFirst, MaxSecond)

\* generate_random_name taking the second part from the group of another
\* separator than the one it joins with.
generate_random_name_AnyGroup(d) ==
    LET first == FIRST_NAMES[d[1]]
        separator == SEPARATORS[d[2]]
        other == SECOND_PARTS[SEPARATORS[(d[2] % Len(SEPARATORS)) + 1]]
        second == other[Min(d[3], Len(other))]
        full_name == first \o separator \o second
    IN  << first, full_name >>

\* generate_random_name, lines 179-188, given its three draws.
generate_random_name(d) ==
    LET first == FIRST_NAMES[d[1]]
        separator == SEPARATORS[d[2]]
        second == SECOND_PARTS[separator][d[3]]
        full_name == first \o separator \o second
    IN  << first, full_name >>

\* ------------------------------------------------------- standard input
\* The text on standard input: nothing, text that is no JSON, or JSON text
\* with the value it denotes. A JSON object is the function of its keys.
NoFields == [k \in {} |-> ""]

\* A JSON value that is no object (an array, a string, a number, null).
NonObject(t) == [type |-> t, fields |-> NoFields]

\* JSON null, which json.loads gives as None.
JsonNull == NonObject("null")

\* The JSON object (a dict) of the given keys and values.
ObjectOf(f) == [type |-> "object", fields |-> f]

EmptyText == [kind |-> "empty", value |-> JsonNull]

GarbageText == [kind |-> "garbage", value |-> JsonNull]

JsonText(v) == [kind |-> "json", value |-> v]

\* The JSON object with the given fields; a field given as Absent is left out.
Object(sid, tp, cwd, src) ==
    LET all == [session_id |-> sid, transcript_path |-> tp, cwd |-> cwd, source |-> src]
    IN  ObjectOf([k \in {k \in DOMAIN all : all[k] # Absent} |-> all[k]])

\* json.loads of a text: the value, or JSONDecodeError raised.
json_loads(text) ==
    IF text.kind = "json"
    THEN [raised |-> FALSE, value |-> text.value]
    ELSE [raised |-> TRUE, value |-> JsonNull]

\* main, lines 269-289: what the start of main makes of standard input.
\* "exit" is sys.exit(0), "raise" an exception nothing catches (input_data.get
\* on a value that is no dict), "ok" goes on with the four locals.
ReadInput(in, e) ==
    LET quiet == [outcome |-> "exit", session_id |-> None, transcript_path |-> None,
                  cwd |-> None, source |-> None]
        input_data == json_loads(in.content).value
    IN  IF in.isatty THEN quiet
        ELSE IF in.content.kind = "empty" THEN quiet
        ELSE IF json_loads(in.content).raised THEN quiet
        ELSE IF input_data.type # "object" THEN [quiet EXCEPT !.outcome = "raise"]
        ELSE IF ~Truthy(Get(input_data.fields, "session_id", "")) THEN quiet
        ELSE [outcome |-> "ok",
              session_id |-> input_data.fields["session_id"],
              transcript_path |-> Get(input_data.fields, "transcript_path", ""),
              cwd |-> Get(input_data.fields, "cwd", e.getcwd),
              source |-> Get(input_data.fields, "source", "unknown")]

\* ------------------------------------------------------------- HTTP API
\* What urlopen gives: a response with a 2xx status and a body, or one of the
\* exceptions it raises (HTTPError for any other status, URLError, TimeoutError).
Response(status, body) == [kind |-> "response", status |-> status, body |-> body]

HTTPError(code) == [kind |-> "HTTPError", status |-> code, body |-> EmptyText]

NetError(k) == [kind |-> k, status |-> 0, body |-> EmptyText]

\* get_session_from_api, lines 191-209, given what urlopen gave: the value
\* returned, or the exception that leaves the function. json.loads of the
\* body is inside the try, and none of the except clauses catches its error.
get_session_from_api(resp) ==
    IF resp.kind = "response" /\ resp.status = 200
    THEN json_loads(resp.body)
    ELSE [raised |-> FALSE, value |-> JsonNull]

\* The JSON body of the POST, lines 221-227.
Payload(session_id, cwd, transcript_path, nickname) ==
    [sessionId |-> session_id, cwd |-> cwd, transcriptPath |-> transcript_path,
     nickname |-> nickname, hidden |-> FALSE]

\* create_session_via_api, lines 212-235, given what urlopen gave.
create_session_via_api(resp) ==
    IF resp.kind = "response" THEN resp.status \in {200, 201} ELSE FALSE

\* get_or_create_session generating a new name for a session that has one.
get_or_create_session_Regenerate(session, d) ==
    IF session.type = "object" /\ DOMAIN session.fields # {}
    THEN [result |-> generate_random_name(d), create |-> FALSE]
    ELSE [result |-> generate_random_name(d), create |-> TRUE]

\* get_or_create_session calling create for a session that was found too.
get_or_create_session_AlwaysCreate(session, d) ==
    IF session.type = "object" /\ DOMAIN session.fields # {}
    THEN LET nickname == Get(session.fields, "nickname", None)
         IN  IF Truthy(nickname)
             THEN [result |-> << nickname, nickname \o " (resumed)" >>, create |-> TRUE]
             ELSE [result |-> generate_random_name(d), create |-> TRUE]
    ELSE [result |-> generate_random_name(d), create |-> TRUE]

\* get_or_create_session, lines 238-265, given what get_session_from_api
\* returned and the draws of generate_random_name: the pair returned, and
\* whether create_session_via_api is called before returning. A session is
\* None or a dict; "if session" is false of None and of an empty dict.
get_or_create_session(session, d) ==
    IF session.type = "object" /\ DOMAIN session.fields # {}
    THEN LET nickname == Get(session.fields, "nickname", None)
         IN  IF Truthy(nickname)
             THEN [result |-> << nickname, nickname \o " (resumed)" >>, create |-> FALSE]
             ELSE [result |-> generate_random_name(d), create |-> FALSE]
    ELSE [result |-> generate_random_name(d), create |-> TRUE]

\* ------------------------------------------------------- output of main
\* project_dir, line 299.
ProjectDir(e, cwd) == IF e.CLAUDE_PROJECT_DIR # Absent THEN e.CLAUDE_PROJECT_DIR ELSE cwd

\* session_record, lines 300-309.
SessionRecord(a, nm, e, now) ==
    [session_id |-> a.session_id, session_name |-> nm[2], nickname |-> nm[1],
     transcript_path |-> a.transcript_path, cwd |-> a.cwd, source |-> a.source,
     timestamp |-> now, project_dir |-> ProjectDir(e, a.cwd)]

\* json.dumps(x) and json.dump(x, f, indent=2): the text written, by layout.
json_dumps(x) == [layout |-> "compact", value |-> x]

json_dump_indent2(x) == [layout |-> "indent2", value |-> x]

\* The value a written text denotes.
Parsed(text) == text.value

\* context_lines with the first line replaced for source "resume" only.
ContextLines_ResumeOnly(a, nm, e) ==
    LET context_lines ==
            << "Session: " \o nm[2],
               "Session ID: " \o a.session_id,
               "Project: " \o ProjectDir(e, a.cwd),
               "Transcript: " \o a.transcript_path >>
    IN  IF a.source = "resume"
        THEN [context_lines EXCEPT
                ![1] = "Session: " \o nm[1] \o " (resumed from " \o a.source \o ")"]
        ELSE context_lines

\* context_lines, lines 331-339.
ContextLines(a, nm, e) ==
    LET context_lines ==
            << "Session: " \o nm[2],
               "Session ID: " \o a.session_id,
               "Project: " \o ProjectDir(e, a.cwd),
               "Transcript: " \o a.transcript_path >>
    IN  IF a.source \in {"resume", "compact"}
        THEN [context_lines EXCEPT
                ![1] = "Session: " \o nm[1] \o " (resumed from " \o a.source \o ")"]
        ELSE context_lines

\* output, lines 341-346; additionalContext is the lines "\n".join puts together.
Output(a, nm, e) ==
    [hookSpecificOutput |->
        [hookEventName |-> "SessionStart", additionalContext |-> ContextLines(a, nm, e)]]

\* ---------------------------------------------------------------- state
\* The processes, the session ids and the directories of the model.
AllProcs == 1..MaxProcs

SessionIds == {"s1", "s2"}

Dirs == {"/w1", "/w2"}

VARIABLES
    pc,              \* where each process is: idle, find, create, log, latest, print, done
    stdin,           \* what each process finds on standard input
    env,             \* os.getcwd() and CLAUDE_PROJECT_DIR of each process
    args,            \* main's session_id, transcript_path, cwd, source
    session,         \* what get_session_from_api returned
    name,            \* main's (nickname, full_name)
    session_record,  \* main's session_record
    requests,        \* the HTTP requests each process has issued, in order
    stdout,          \* what each process has printed
    exit,            \* whether each process has ended, and its exit code
    store,           \* the API's sessions: the rows held for each session id
    backend,         \* what the API does with a create for an id it holds
    sessionsFile,    \* <project_dir>/.claude/sessions.jsonl, its lines
    latestFile,      \* <project_dir>/.claude/current-session.json
    writes,          \* how each process's file writes went, in order
    clock            \* datetime.now()

vars ==
    << pc, stdin, env, args, session, name, session_record, requests, stdout, exit,
       store, backend, sessionsFile, latestFile, writes, clock >>

NoArgs == [session_id |-> None, transcript_path |-> None, cwd |-> None, source |-> None]

NoEnv == [getcwd |-> None, CLAUDE_PROJECT_DIR |-> Absent]

NoName == << None, None >>

NoRecord == SessionRecord(NoArgs, NoName, NoEnv, 0)

\* A file that does not exist.
NoFile == [layout |-> "none", value |-> NoRecord]

Running == [exited |-> FALSE, code |-> 0]

Exited(code) == [exited |-> TRUE, code |-> code]

\* ------------------------------------------ the API's side of a request
\* GET /api/sessions/{id}: the row held for the id (one of them, when the
\* store holds duplicates), or 404.
BackendGet(st, sid) ==
    IF st[sid] = << >>
    THEN { HTTPError(404) }
    ELSE { Response(200, JsonText(ObjectOf(st[sid][i]))) : i \in DOMAIN st[sid] }

\* A GET that goes wrong: a body that is no JSON, a null body, another 2xx
\* status, a server error, no connection, no answer within the timeout.
GetFaults ==
    { Response(200, GarbageText), Response(200, JsonText(JsonNull)),
      Response(204, EmptyText), HTTPError(500), NetError("URLError"),
      NetError("TimeoutError") }

\* POST /api/sessions: the answer and the store after it. For an id the
\* store holds, the API rejects the row, replaces the row or adds a duplicate.
BackendPost(st, be, row) ==
    LET sid == row.sessionId
    IN  IF st[sid] = << >> \/ be = "append"
        THEN { << Response(201, EmptyText), [st EXCEPT ![sid] = Append(@, row)] >> }
        ELSE IF be = "upsert"
        THEN { << Response(200, EmptyText), [st EXCEPT ![sid] = << row >>] >> }
        ELSE { << HTTPError(409), st >> }

\* A POST that goes wrong and stores nothing.
PostFaults ==
    { Response(202, EmptyText), HTTPError(500), NetError("URLError"),
      NetError("TimeoutError") }

Backends == {"unique", "upsert", "append"}

\* ------------------------------------------------------------- actions
\* main, lines 269-289: read and check standard input.
Start(p, Stdins, Envs) ==
    /\ pc[p] = "idle"
    /\ \E in \in Stdins, e \in Envs :
        LET r == ReadInput(in, e)
        IN  /\ stdin' = [stdin EXCEPT ![p] = in]
            /\ env' = [env EXCEPT ![p] = e]
            /\ IF r.outcome = "ok"
               THEN /\ args' = [args EXCEPT ![p] =
                            [session_id |-> r.session_id,
                             transcript_path |-> r.transcript_path,
                             cwd |-> r.cwd, source |-> r.source]]
                    /\ pc' = [pc EXCEPT ![p] = "find"]
                    /\ exit' = exit
               ELSE /\ args' = args
                    /\ pc' = [pc EXCEPT ![p] = "done"]
                    /\ exit' = [exit EXCEPT ![p] =
                            Exited(IF r.outcome = "exit" THEN 0 ELSE 1)]
    /\ UNCHANGED << session, name, session_record, requests, stdout, store, backend,
                    sessionsFile, latestFile, writes, clock >>

\* A request as the process saw it: what was sent, what urlopen gave, and
\* what the function that sent it returned ("raise": it did not return).
GetRequest(sid, resp, got) ==
    [method |-> "GET", session_id |-> sid, nickname |-> None, response |-> resp,
     returned |-> IF got.raised THEN "raise"
                  ELSE IF got.value = JsonNull THEN "None" ELSE "dict"]

PostRequest(row, resp, ret) ==
    [method |-> "POST", session_id |-> row.sessionId, nickname |-> row.nickname,
     response |-> resp, returned |-> IF ret THEN "True" ELSE "False"]

\* get_or_create_session, lines 247-260: the GET and what follows it, up to
\* the POST. An exception of get_session_from_api ends the process.
Find(p, Faults, Draws) ==
    /\ pc[p] = "find"
    /\ \E resp \in BackendGet(store, args[p].session_id) \cup Faults, d \in Draws :
        LET got == get_session_from_api(resp)
            r == get_or_create_session(got.value, d)
        IN  /\ requests' = [requests EXCEPT ![p] =
                    Append(@, GetRequest(args[p].session_id, resp, got))]
            /\ IF got.raised
               THEN /\ pc' = [pc EXCEPT ![p] = "done"]
                    /\ exit' = [exit EXCEPT ![p] = Exited(1)]
                    /\ UNCHANGED << session, name >>
               ELSE /\ session' = [session EXCEPT ![p] = got.value]
                    /\ name' = [name EXCEPT ![p] = r.result]
                    /\ pc' = [pc EXCEPT ![p] = IF r.create THEN "create" ELSE "log"]
                    /\ exit' = exit
    /\ UNCHANGED << stdin, env, args, session_record, stdout, store, backend,
                    sessionsFile, latestFile, writes, clock >>

\* Create looking at the store again and sending no POST for an id another
\* process has stored in the meantime.
Create_IfStillAbsent(p, Faults) ==
    /\ pc[p] = "create"
    /\ LET row == Payload(args[p].session_id, args[p].cwd, args[p].transcript_path,
                          name[p][1])
       IN  IF store[row.sessionId] # << >>
           THEN UNCHANGED << store, requests >>
           ELSE \E o \in BackendPost(store, backend, row)
                        \cup { << f, store >> : f \in Faults } :
                    /\ store' = o[2]
                    /\ requests' = [requests EXCEPT ![p] =
                            Append(@, PostRequest(row, o[1], create_session_via_api(o[1])))]
    /\ pc' = [pc EXCEPT ![p] = "log"]
    /\ UNCHANGED << stdin, env, args, session, name, session_record, stdout, exit,
                    backend, sessionsFile, latestFile, writes, clock >>

\* get_or_create_session, lines 262-265: the POST, whose result is dropped.
Create(p, Faults) ==
    /\ pc[p] = "create"
    /\ LET row == Payload(args[p].session_id, args[p].cwd, args[p].transcript_path,
                          name[p][1])
       IN  \E o \in BackendPost(store, backend, row) \cup { << f, store >> : f \in Faults } :
            /\ store' = o[2]
            /\ requests' = [requests EXCEPT ![p] =
                    Append(@, PostRequest(row, o[1], create_session_via_api(o[1])))]
    /\ pc' = [pc EXCEPT ![p] = "log"]
    /\ UNCHANGED << stdin, env, args, session, name, session_record, stdout, exit,
                    backend, sessionsFile, latestFile, writes, clock >>

\* AppendLog opening sessions.jsonl with mode "w": the line replaces the file.
AppendLog_Overwrite(p, Outcomes) ==
    /\ pc[p] = "log"
    /\ LET rec == SessionRecord(args[p], name[p], env[p], clock)
       IN  /\ session_record' = [session_record EXCEPT ![p] = rec]
           /\ \E o \in Outcomes :
                /\ sessionsFile' =
                        IF o = "ok"
                        THEN [sessionsFile EXCEPT ![rec.project_dir] = << json_dumps(rec) >>]
                        ELSE sessionsFile
                /\ writes' = [writes EXCEPT ![p] = Append(@, o)]
    /\ clock' = clock + 1
    /\ pc' = [pc EXCEPT ![p] = "latest"]
    /\ UNCHANGED << stdin, env, args, session, name, requests, stdout, exit, store,
                    backend, latestFile >>

\* main, lines 298-319: build the record and append it to sessions.jsonl;
\* an OSError of mkdir or open is passed over.
AppendLog(p, Outcomes) ==
    /\ pc[p] = "log"
    /\ LET rec == SessionRecord(args[p], name[p], env[p], clock)
       IN  /\ session_record' = [session_record EXCEPT ![p] = rec]
           /\ \E o \in Outcomes :
                /\ sessionsFile' =
                        IF o = "ok"
                        THEN [sessionsFile EXCEPT ![rec.project_dir] =
                                    Append(@, json_dumps(rec))]
                        ELSE sessionsFile
                /\ writes' = [writes EXCEPT ![p] = Append(@, o)]
    /\ clock' = clock + 1
    /\ pc' = [pc EXCEPT ![p] = "latest"]
    /\ UNCHANGED << stdin, env, args, session, name, requests, stdout, exit, store,
                    backend, latestFile >>

\* main, lines 321-327: overwrite current-session.json; an OSError is passed over.
WriteLatest(p, Outcomes) ==
    /\ pc[p] = "latest"
    /\ \E o \in Outcomes :
        /\ latestFile' =
                IF o = "ok"
                THEN [latestFile EXCEPT ![session_record[p].project_dir] =
                            json_dump_indent2(session_record[p])]
                ELSE latestFile
        /\ writes' = [writes EXCEPT ![p] = Append(@, o)]
    /\ pc' = [pc EXCEPT ![p] = "print"]
    /\ UNCHANGED << stdin, env, args, session, name, session_record, requests, stdout,
                    exit, store, backend, sessionsFile, clock >>

\* main, lines 329-349: print the hook output and exit.
PrintOutput(p) ==
    /\ pc[p] = "print"
    /\ stdout' = [stdout EXCEPT ![p] = Append(@, json_dumps(Output(args[p], name[p], env[p])))]
    /\ exit' = [exit EXCEPT ![p] = Exited(0)]
    /\ pc' = [pc EXCEPT ![p] = "done"]
    /\ UNCHANGED << stdin, env, args, session, name, session_record, requests, store,
                    backend, sessionsFile, latestFile, writes, clock >>

\* ------------------------------------------------------- initial states
\* Before any process has started: the API holds the given store.
InitWith(Stores, Bes) ==
    /\ pc = [p \in AllProcs |-> "idle"]
    /\ stdin = [p \in AllProcs |-> [isatty |-> TRUE, content |-> EmptyText]]
    /\ env = [p \in AllProcs |-> NoEnv]
    /\ args = [p \in AllProcs |-> NoArgs]
    /\ session = [p \in AllProcs |-> JsonNull]
    /\ name = [p \in AllProcs |-> NoName]
    /\ session_record = [p \in AllProcs |-> NoRecord]
    /\ requests = [p \in AllProcs |-> << >>]
    /\ stdout = [p \in AllProcs |-> << >>]
    /\ exit = [p \in AllProcs |-> Running]
    /\ store \in Stores
    /\ backend \in Bes
    /\ sessionsFile = [d \in Dirs |-> << >>]
    /\ latestFile = [d \in Dirs |-> NoFile]
    /\ writes = [p \in AllProcs |-> << >>]
    /\ clock = 1

EmptyStore == [sid \in SessionIds |-> << >>]

\* ------------------------------------------------------ one invocation
\* Every kind of standard input: a terminal, nothing, text that is no JSON,
\* JSON that is no object, and objects with and without each field.
TtyInput == [isatty |-> TRUE, content |-> EmptyText]

Piped(text) == [isatty |-> FALSE, content |-> text]

MalformedStdins ==
    { TtyInput, Piped(EmptyText), Piped(GarbageText) }
        \cup { Piped(JsonText(NonObject(t))) : t \in {"array", "string", "number", "null"} }

Sources == {"startup", "resume", "clear", "compact", "unknown", Absent}

ObjectStdins(Sids, Tps, Cwds, Srcs) ==
    { Piped(JsonText(Object(sid, tp, cwd, src))) :
        sid \in Sids, tp \in Tps, cwd \in Cwds, src \in Srcs }

AllStdins ==
    MalformedStdins
        \cup ObjectStdins({"s1", "", Absent}, {"/t.jsonl", Absent}, {"/w1", Absent}, Sources)

AllEnvs == { [getcwd |-> "/w2", CLAUDE_PROJECT_DIR |-> d] : d \in {"/w1", Absent} }

\* The stores one invocation can find: no row for the id, a row without a
\* nickname, a row with one.
StoredRow(sid, nickname) == Payload(sid, "/w1", "/t.jsonl", nickname)

OneRowStores ==
    { EmptyStore } \cup
    { [EmptyStore EXCEPT !["s1"] = << StoredRow("s1", n) >>] : n \in {"", FIRST_NAMES[1]} }

Init == InitWith(OneRowStores, {"unique"})

Next ==
    \/ Start(1, AllStdins, AllEnvs)
    \/ Find(1, GetFaults, BoundedDraws)
    \/ Create(1, PostFaults)
    \/ AppendLog(1, {"ok", "OSError"})
    \/ WriteLatest(1, {"ok", "OSError"})
    \/ PrintOutput(1)

Spec == Init /\ [][Next]_vars

\* ------------------------------------------- claims about one invocation
\* A valid input: a JSON object with a non-empty session_id, on a pipe.
ValidInput(in) ==
    /\ ~in.isatty
    /\ in.content.kind = "json"
    /\ in.content.value.type = "object"
    /\ Truthy(Get(in.content.value.fields, "session_id", ""))

Ended(p) == pc[p] = "done"

\* The process printed exactly one hook output and exited with code 0.
PrintedOnce(p) ==
    /\ exit[p] = Exited(0)
    /\ Len(stdout[p]) = 1
    /\ DOMAIN Parsed(stdout[p][1]) = {"hookSpecificOutput"}
    /\ DOMAIN Parsed(stdout[p][1]).hookSpecificOutput = {"hookEventName", "additionalContext"}
    /\ Parsed(stdout[p][1]).hookSpecificOutput.hookEventName = "SessionStart"

\* The lines of the context the process printed.
Context(p) == Parsed(stdout[p][1]).hookSpecificOutput.additionalContext

Gets(p) == SelectSeq(requests[p], LAMBDA r : r.method = "GET")

Posts(p) == SelectSeq(requests[p], LAMBDA r : r.method = "POST")

\* No file of the model has been written.
NoFileWritten ==
    /\ sessionsFile = [d \in Dirs |-> << >>]
    /\ latestFile = [d \in Dirs |-> NoFile]

\* C3: for every valid input, whatever the outcome of the find and create
\* calls and of the two file writes, the process prints exactly one JSON
\* object of the hook's shape and exits with code 0, and what it prints does
\* not depend on how the file writes went.
C3_ValidInputPrintsOnce ==
    \A p \in AllProcs :
        Ended(p) /\ ValidInput(stdin[p]) =>
            /\ PrintedOnce(p)
            /\ stdout[p][1] = json_dumps(Output(args[p], name[p], env[p]))

\* C4: for every malformed or missing input the process exits with code 0,
\* prints nothing, sends no request to the store and writes no file.
C4_MalformedAbortsQuietly ==
    \A p \in AllProcs :
        Ended(p) /\ ~ValidInput(stdin[p]) =>
            /\ exit[p] = Exited(0)
            /\ stdout[p] = << >>
            /\ requests[p] = << >>
            /\ writes[p] = << >>
            /\ NoFileWritten

\* A find that failed: anything but a 200 answer carrying a record.
FindFailed(r) ==
    r.method = "GET" /\ ~(r.response.kind = "response" /\ r.response.status = 200
                            /\ r.response.body.kind = "json"
                            /\ r.response.body.value.type = "object")

\* A create that failed: anything but a 200 or 201 answer.
CreateFailed(r) ==
    r.method = "POST" /\ ~(r.response.kind = "response" /\ r.response.status \in {200, 201})

\* (first, full_name) is a pair the name generator can return.
Generated(nm) ==
    /\ \E i \in DOMAIN FIRST_NAMES : nm[1] = FIRST_NAMES[i]
    /\ \E k \in DOMAIN SEPARATORS :
         \E j \in DOMAIN SECOND_PARTS[SEPARATORS[k]] :
            nm[2] = nm[1] \o SEPARATORS[k] \o SECOND_PARTS[SEPARATORS[k]][j]

\* C5: every failing outcome of find yields absent and every failing outcome
\* of create is swallowed: the resolver returns a freshly generated pair and
\* the process exits 0 with valid output.
C5_StorageFailureDegrades ==
    \A p \in AllProcs :
        Ended(p) /\ (\E i \in DOMAIN requests[p] :
                        FindFailed(requests[p][i]) \/ CreateFailed(requests[p][i])) =>
            /\ requests[p][1].returned # "raise"
            /\ FindFailed(requests[p][1]) => requests[p][1].returned = "None"
            /\ Generated(name[p])
            /\ PrintedOnce(p)

\* C7: one invocation issues exactly one find and at most one create, the
\* create exactly when the record was not found, and never a second create.
C7_OneFindCreateIffNotFound ==
    \A p \in AllProcs :
        Ended(p) /\ ValidInput(stdin[p]) =>
            /\ Len(Gets(p)) = 1
            /\ requests[p][1].method = "GET"
            /\ Len(Posts(p)) = IF FindFailed(requests[p][1]) THEN 1 ELSE 0

\* The fields of the JSON object the process read.
InputFields(p) == stdin[p].content.value.fields

\* C8: the first line of the emitted context is
\* "Session: {nickname} (resumed from {source})" exactly when the input's
\* source is resume or compact, whether or not the store held a record, and
\* "Session: {full_name}" for every other or absent source; the other three
\* lines give the input's session id, the project directory and the
\* transcript path in both cases.
C8_FirstLineBySource ==
    \A p \in AllProcs :
        Ended(p) /\ stdout[p] # << >> =>
            LET f == InputFields(p)
                resumed == "source" \in DOMAIN f /\ f.source \in {"resume", "compact"}
                project == IF env[p].CLAUDE_PROJECT_DIR # Absent
                           THEN env[p].CLAUDE_PROJECT_DIR
                           ELSE Get(f, "cwd", env[p].getcwd)
            IN  /\ Len(Context(p)) = 4
                /\ resumed =>
                    Context(p)[1] =
                        "Session: " \o name[p][1] \o " (resumed from " \o f.source \o ")"
                /\ ~resumed =>
                    /\ Context(p)[1] = "Session: " \o name[p][2]
                    /\ Context(p)[1] #
                            "Session: " \o name[p][1] \o " (resumed from "
                                \o Get(f, "source", "unknown") \o ")"
                /\ Context(p)[2] = "Session ID: " \o f.session_id
                /\ Context(p)[3] = "Project: " \o project
                /\ Context(p)[4] = "Transcript: " \o Get(f, "transcript_path", "")

\* A context printed for source compact when the store held no record.
C8_Witness ==
    \E p \in AllProcs :
        /\ Ended(p) /\ stdout[p] # << >>
        /\ Get(InputFields(p), "source", Absent) = "compact"
        /\ session[p] = JsonNull
        /\ store[args[p].session_id] = << >>
        /\ Context(p)[1] = "Session: " \o name[p][1] \o " (resumed from compact)"

\* ------------------------------------- one invocation, the whole word lists
\* A fresh session id, or one whose row has no nickname: the invocations in
\* which a name is generated, with every draw the lists allow.
GenStdins == ObjectStdins({"s1"}, {"/t.jsonl"}, {"/w1"}, {"startup", "resume"})

GenEnvs == { [getcwd |-> "/w2", CLAUDE_PROJECT_DIR |-> Absent] }

GenStores == { EmptyStore, [EmptyStore EXCEPT !["s1"] = << StoredRow("s1", "") >>] }

GenInit == InitWith(GenStores, {"unique"})

GenNext ==
    \/ Start(1, GenStdins, GenEnvs)
    \/ Find(1, {HTTPError(500)}, AllDraws)
    \/ Create(1, {NetError("URLError")})
    \/ AppendLog(1, {"ok"})
    \/ WriteLatest(1, {"ok"})
    \/ PrintOutput(1)

GenSpec == GenInit /\ [][GenNext]_vars

\* get_or_create_session has returned a generated name to process p.
NameGenerated(p) ==
    /\ pc[p] \in {"create", "log", "latest", "print"} \/ (Ended(p) /\ stdout[p] # << >>)
    /\ ~Truthy(Get(session[p].fields, "nickname", None))

\* C6: every (first, full_name) of the name generator has first in the
\* first-name list and full_name = first + separator + suffix, with the
\* separator one of the four and the suffix of that separator's group; and
\* the nickname returned, passed to create, stored and emitted for such a
\* session is first, never the full name.
C6_GeneratedNameShape ==
    \A p \in AllProcs :
        NameGenerated(p) =>
            LET first == name[p][1]
                full_name == name[p][2]
            IN  /\ \E i \in DOMAIN FIRST_NAMES : first = FIRST_NAMES[i]
                /\ Len(SEPARATORS) = 4
                /\ \E k \in DOMAIN SEPARATORS :
                     \E j \in DOMAIN SECOND_PARTS[SEPARATORS[k]] :
                        full_name = first \o SEPARATORS[k] \o SECOND_PARTS[SEPARATORS[k]][j]
                /\ first # full_name
                /\ \A i \in DOMAIN requests[p] :
                     requests[p][i].method = "POST" => requests[p][i].nickname = first
                /\ session[p] = JsonNull /\ pc[p] # "create" => Len(Posts(p)) = 1
                /\ \A i \in DOMAIN store[args[p].session_id] :
                     store[args[p].session_id][i].nickname \in {"", first}
                /\ pc[p] \in {"latest", "print", "done"} =>
                     /\ session_record[p].nickname = first
                     /\ session_record[p].session_name = full_name
                /\ Ended(p) /\ args[p].source = "resume" =>
                     Context(p)[1] = "Session: " \o first \o " (resumed from resume)"
                /\ Ended(p) /\ args[p].source = "startup" =>
                     Context(p)[1] = "Session: " \o full_name

\* A fresh session named with the last entries of the lists: the name is
\* generated, first is sent to create and stored, and the full name printed.
C6_Witness ==
    \E p \in AllProcs :
        /\ Ended(p) /\ NameGenerated(p) /\ session[p] = JsonNull
        /\ name[p] = << "Greg", "Greg of the Pending PRs" >>
        /\ Len(store[args[p].session_id]) = 1
        /\ store[args[p].session_id][1].nickname = "Greg"
        /\ Context(p)[1] = "Session: Greg of the Pending PRs"

\* ------------------------------------------- invocations one after another
\* Process p starts when the processes before it have ended.
InTurn(p) == \A q \in AllProcs : q < p => pc[q] = "done"

\* One session id, started, resumed and compacted.
SeqStdins == ObjectStdins({"s1"}, {"/t.jsonl"}, {"/w1"}, {"startup", "resume", "compact"})

\* Draws that differ in the first name only.
FirstDraws == { d \in DrawsWithin(MaxFirst, 1) : d[2] = 1 }

SeqInit == InitWith({EmptyStore}, Backends)

SeqNext ==
    \E p \in AllProcs :
        \/ InTurn(p) /\ Start(p, SeqStdins, GenEnvs)
        \/ Find(p, {HTTPError(500)}, FirstDraws)
        \/ Create(p, {NetError("TimeoutError")})
        \/ AppendLog(p, {"ok"})
        \/ WriteLatest(p, {"ok"})
        \/ PrintOutput(p)

SeqSpec == SeqInit /\ [][SeqNext]_vars

\* Two session ids, each started any number of times.
StoreStdins == ObjectStdins(SessionIds, {"/t.jsonl"}, {"/w1"}, {"startup", "resume"})

StoreNext ==
    \E p \in AllProcs :
        \/ InTurn(p) /\ Start(p, StoreStdins, GenEnvs)
        \/ Find(p, {HTTPError(500)}, FirstDraws)
        \/ Create(p, {NetError("TimeoutError")})
        \/ AppendLog(p, {"ok"})
        \/ WriteLatest(p, {"ok"})
        \/ PrintOutput(p)

StoreSpec == SeqInit /\ [][StoreNext]_vars

\* ------------------------------------------------ claims about the store
\* The nickname of the record find returned to p; None when it returned none.
FoundNickname(p) == Get(session[p].fields, "nickname", None)

StoredNicknames(sid) == { store[sid][i].nickname : i \in DOMAIN store[sid] }

\* C1 as stated: when find returns a record with nickname N, the invocation
\* returns (N, "N (resumed)") and the context's first line is "N (resumed)",
\* or "N (resumed from resume)" when source is resume.
C1_ResumedFirstLineAsStated ==
    \A p \in AllProcs :
        Truthy(FoundNickname(p)) /\ stdout[p] # << >> =>
            LET N == FoundNickname(p)
            IN  /\ name[p] = << N, N \o " (resumed)" >>
                /\ Context(p)[1] =
                        IF args[p].source = "resume"
                        THEN N \o " (resumed from resume)"
                        ELSE N \o " (resumed)"

\* C1, amended: when find returns a stored record with nickname N, the
\* invocation returns (N, "N (resumed)"), generates and creates nothing, and
\* the context's first line is "Session: N (resumed from S)" for a source S
\* of resume or compact and "Session: N (resumed)" for any other source.
C1_ResumeStability ==
    \A p \in AllProcs :
        Truthy(FoundNickname(p)) =>
            LET N == FoundNickname(p)
            IN  /\ ~Ended(p) => N \in StoredNicknames(args[p].session_id)
                /\ name[p] = << N, N \o " (resumed)" >>
                /\ Posts(p) = << >>
                /\ stdout[p] # << >> =>
                     Context(p)[1] =
                        IF args[p].source \in {"resume", "compact"}
                        THEN "Session: " \o N \o " (resumed from " \o args[p].source \o ")"
                        ELSE "Session: " \o N \o " (resumed)"

\* A second invocation for a session the first one named: it finds the
\* nickname the first one stored and prints it for source compact.
C1_Witness ==
    \E p, q \in AllProcs :
        /\ p < q /\ Ended(p) /\ Ended(q)
        /\ args[p].session_id = args[q].session_id
        /\ session[p] = JsonNull /\ Len(Posts(p)) = 1
        /\ FoundNickname(q) = name[p][1]
        /\ name[q][1] = name[p][1]
        /\ args[q].source = "compact"
        /\ Context(q)[1] = "Session: " \o name[p][1] \o " (resumed from compact)"

\* C2 as stated: in every reachable state the store holds at most one record
\* per session id, no record is ever deleted, and a nickname once set to a
\* non-empty value never changes.
C2_StoreWriteOnceAsStated ==
    [][\A sid \in SessionIds :
            /\ Len(store'[sid]) <= 1
            /\ Len(store'[sid]) >= Len(store[sid])
            /\ \A i \in DOMAIN store[sid] :
                 Truthy(store[sid][i].nickname) =>
                    store'[sid][i].nickname = store[sid][i].nickname]_vars

\* C2, amended: no record is ever deleted; the rows of a session id change
\* only by the create of an invocation whose find returned no record, and,
\* for an id the store already holds, only after that find failed; where the
\* API keeps the session id unique the store holds at most one record per
\* session id and a nickname once set never changes.
C2_StoreWrittenOnlyByCreate ==
    [][\A sid \in SessionIds :
            /\ Len(store'[sid]) >= Len(store[sid])
            /\ store'[sid] # store[sid] =>
                 \E p \in AllProcs :
                    /\ pc[p] = "create" /\ pc'[p] = "log"
                    /\ args[p].session_id = sid
                    /\ session[p] = JsonNull
                    /\ store[sid] # << >> => requests[p][1].response \in GetFaults
                    /\ \E i \in DOMAIN store'[sid] :
                         store'[sid][i] =
                            Payload(sid, args[p].cwd, args[p].transcript_path, name[p][1])
            /\ backend = "unique" =>
                 /\ Len(store'[sid]) <= 1
                 /\ \A i \in DOMAIN store[sid] :
                      Truthy(store[sid][i].nickname) =>
                         store'[sid][i].nickname = store[sid][i].nickname]_vars

\* An invocation whose find failed for a stored session id: it sent a create
\* with another nickname, the API kept the id unique and the stored nickname.
C2_Witness ==
    \E p \in AllProcs :
        /\ Ended(p) /\ backend = "unique"
        /\ requests[p][1].response = HTTPError(500)
        /\ Len(Posts(p)) = 1 /\ Posts(p)[1].response = HTTPError(409)
        /\ Len(store[args[p].session_id]) = 1
        /\ store[args[p].session_id][1].nickname # name[p][1]

\* -------------------------------------------------- claims about the files
\* Invocations one after another in two directories, the project directory
\* taken from the environment or from cwd, each file write succeeding or not.
FileStdins == ObjectStdins({"s1"}, {"/t.jsonl"}, Dirs, {"startup"})

FileEnvs == { [getcwd |-> "/w1", CLAUDE_PROJECT_DIR |-> d] : d \in {"/w2", Absent} }

FileInit == InitWith({EmptyStore}, {"unique"})

FileNext ==
    \E p \in AllProcs :
        \/ InTurn(p) /\ Start(p, FileStdins, FileEnvs)
        \/ Find(p, {}, FirstDraws)
        \/ Create(p, {})
        \/ AppendLog(p, {"ok", "OSError"})
        \/ WriteLatest(p, {"ok", "OSError"})
        \/ PrintOutput(p)

FileSpec == FileInit /\ [][FileNext]_vars

\* The invocations that have built their record for directory d.
Recorded(d) ==
    { p \in AllProcs : writes[p] # << >> /\ session_record[p].project_dir = d }

\* Every file write of those invocations succeeded.
AllWritesOk(d) ==
    \A p \in Recorded(d) : \A i \in DOMAIN writes[p] : writes[p][i] = "ok"

\* Each sessionsFile either is as it was or has one new last line.
AppendOnly ==
    \A d \in Dirs :
        \/ sessionsFile'[d] = sessionsFile[d]
        \/ /\ Len(sessionsFile'[d]) = Len(sessionsFile[d]) + 1
           /\ SubSeq(sessionsFile'[d], 1, Len(sessionsFile[d])) = sessionsFile[d]

\* The log of d has one line per invocation, in invocation order, and the
\* latest file holds the record of the log's last line.
LogMirrored(d) ==
    /\ Len(sessionsFile[d]) = Cardinality(Recorded(d))
    /\ \A p \in Recorded(d) :
         LET i == Cardinality({ q \in Recorded(d) : q <= p })
         IN  /\ sessionsFile[d][i].layout = "compact"
             /\ Parsed(sessionsFile[d][i]) = session_record[p]
    /\ Recorded(d) = {} => latestFile[d] = NoFile
    /\ Recorded(d) # {} /\ (\A p \in Recorded(d) : pc[p] # "latest") =>
         /\ latestFile[d].layout = "indent2"
         /\ Parsed(latestFile[d]) = Parsed(sessionsFile[d][Len(sessionsFile[d])])

\* C9: the log is append-only, and after any sequence of invocations in one
\* project directory whose file writes succeed the log has one line per
\* invocation in invocation order and the latest file holds the record of
\* the log's last line.
C9_LogAppendOnlyLatestMirrors ==
    [][AppendOnly /\ \A d \in Dirs : AllWritesOk(d)' => LogMirrored(d)']_vars

\* Two invocations in one directory, every write succeeding: two lines, the
\* latest file holding the second.
C9_Witness ==
    \E d \in Dirs :
        /\ Recorded(d) = AllProcs \cap {1, 2} /\ AllWritesOk(d)
        /\ \A p \in Recorded(d) : Ended(p)
        /\ Len(sessionsFile[d]) = 2
        /\ Parsed(latestFile[d]) = session_record[2]
        /\ Parsed(sessionsFile[d][1]) = session_record[1]

\* ------------------------------------------------ concurrent invocations
\* Processes started for one fresh session id, their steps interleaved.
ConcStdins == ObjectStdins({"s1"}, {"/t.jsonl"}, {"/w1"}, {"startup"})

ConcNext ==
    \E p \in AllProcs :
        \/ Start(p, ConcStdins, GenEnvs)
        \/ Find(p, {}, FirstDraws)
        \/ Create(p, {})
        \/ AppendLog(p, {"ok"})
        \/ WriteLatest(p, {"ok"})
        \/ PrintOutput(p)

ConcSpec == SeqInit /\ [][ConcNext]_vars

\* The processes whose create for sid has been answered.
Posted(sid) ==
    { q \in AllProcs : Posts(q) # << >> /\ args[q].session_id = sid }

\* C10: invocations for one session id are not coordinated. Every process
\* whose find returned no record sends its own create carrying the name it
\* generated, and emits that name, whatever the other processes have stored;
\* what the store then holds (the first row, the last row or duplicates) is
\* the API's choice among the rows sent.
C10_CreateNotCoordinated ==
    \A p \in AllProcs :
        pc[p] \in {"log", "latest", "print", "done"} /\ requests[p][1].returned = "None" =>
            LET sid == args[p].session_id
            IN  /\ Len(Posts(p)) = 1
                /\ Posts(p)[1].session_id = sid
                /\ Posts(p)[1].nickname = name[p][1]
                /\ Generated(name[p])
                /\ stdout[p] # << >> => Context(p)[1] = "Session: " \o name[p][2]
                /\ StoredNicknames(sid) \subseteq { name[q][1] : q \in Posted(sid) }
                /\ backend \in {"unique", "upsert"} => Len(store[sid]) = 1
                /\ backend = "append" => Len(store[sid]) = Cardinality(Posted(sid))
                /\ backend = "unique" =>
                     \E q \in Posted(sid) :
                        /\ Posts(q)[1].returned = "True"
                        /\ store[sid][1].nickname = name[q][1]
                        /\ \A r \in Posted(sid) \ {q} : Posts(r)[1].returned = "False"

\* The race: two processes both got 404 for the same session id, each sent a
\* create with its own name and printed it, and the store holds both rows.
C10_Witness ==
    \E p, q \in AllProcs :
        /\ p # q /\ Ended(p) /\ Ended(q)
        /\ args[p].session_id = args[q].session_id
        /\ requests[p][1].response = HTTPError(404)
        /\ requests[q][1].response = HTTPError(404)
        /\ Len(Posts(p)) = 1 /\ Len(Posts(q)) = 1
        /\ name[p][1] # name[q][1]
        /\ Context(p)[1] # Context(q)[1]
        /\ backend = "append"
        /\ StoredNicknames(args[p].session_id) = { name[p][1], name[q][1] }

====
